---- MODULE Spec2Model ----
(***************************************************************************)
(* Model of production_plan.py: the /productionplan handler and its        *)
(* helpers.                                                                *)
(*                                                                         *)
(* Arithmetic.  Powers and loads are integers counting hundredths of a MW  *)
(* (1005 is 10.05 MW), prices are whole euros, efficiencies and wind       *)
(* availability are whole percents, and a marginal cost is kept in tenths  *)
(* of a euro per MWh.  The tolerances 1e-9 and 1e-6 of the source are      *)
(* smaller than one hundredth, so on this grid  x <= 1e-9  and  x < 1e-6   *)
(* read  x <= 0,  and  x >= pmin - 1e-9  reads  x >= pmin.                 *)
(***************************************************************************)
EXTENDS Integers, Sequences, FiniteSets, TLC

VARIABLES
    load,            \* float(payload['load'])
    plants,          \* payload['powerplants']
    fuels,           \* payload['fuels']
    running_plants,  \* the candidate list of productionplan
    ret,             \* what process_plants returned
    iter_count,      \* rounds done by optional_precision_iteration
    response,        \* the response list
    result,          \* the HTTP outcome of the request
    pc               \* position in productionplan

vars == <<load, plants, fuels, running_plants, ret, iter_count, response, result, pc>>

(***************************** bounds **************************************)
MaxPlants == 3

(************************** program constants ******************************)
max_iter == 1000
\* float('inf'): larger than every finite cost of the model, in tenths of a euro
Infinity == 1000000
\* abs_tol = 0.5 MW of the isclose calls, in hundredths
abs_tol == 50
\* the 0.1 MW threshold of ensure_total_equals_load, in hundredths
one_decimal == 10

(****************************** helpers ************************************)
Min(a, b) == IF a <= b THEN a ELSE b
Max(a, b) == IF a >= b THEN a ELSE b
Abs(x) == IF x < 0 THEN 0 - x ELSE x

\* A JSON value of the payload: absent (dict.get gives None), a number, or a
\* string that float() rejects.
Absent == [kind |-> "absent", val |-> 0]
Num(n) == [kind |-> "num", val |-> n]
Str == [kind |-> "str", val |-> 0]

RECURSIVE SumOf(_, _)
SumOf(s, field) ==
    IF s = <<>> THEN 0
    ELSE s[Len(s)][field] + SumOf(SubSeq(s, 1, Len(s) - 1), field)

\* math.isclose(a, b, rel_tol=0, abs_tol=0.5)
isclose(a, b) == Abs(a - b) <= abs_tol

\* round(x, 1) on a float.  A value whose second decimal is not 5 has one
\* nearest tenth.  On a tie the result depends on the binary representation of
\* the float (round(0.15, 1) = 0.1, round(0.45, 1) = 0.5), which the grid does
\* not carry: both neighbours are possible outcomes.
round1(x) ==
    LET q == x \div 10
        r == x % 10
    IN  IF r < 5 THEN {10 * q}
        ELSE IF r > 5 THEN {10 * q + 10}
        ELSE {10 * q, 10 * q + 10}

(****************************** compute_cost *******************************)
\* plant.get('efficiency', 1.0), in percent
efficiency_of(plant) ==
    IF plant.efficiency.kind = "absent" THEN 100 ELSE plant.efficiency.val

\* The exception compute_cost raises, or "none"
compute_cost_raises(plant, fs) ==
    IF plant.type = "gasfired" /\ fs.gas.kind = "absent" THEN "ValueError"
    ELSE IF plant.type = "turbojet" /\ fs.kerosine.kind = "absent" THEN "ValueError"
    ELSE "none"

\* Marginal cost in tenths of a euro per MWh: price / eff (+ 0.3 * co2)
compute_cost(plant, fs) ==
    LET eff == efficiency_of(plant)
    IN  IF plant.type = "windturbine" THEN 0
        ELSE IF plant.type = "gasfired" THEN
            (fs.gas.val * 1000) \div eff
              + 3 * (IF fs.co2.kind = "absent" THEN 0 ELSE fs.co2.val)
        ELSE IF plant.type = "turbojet" THEN (fs.kerosine.val * 1000) \div eff
        ELSE Infinity

(****************************** obtain_power *******************************)
\* float(windp) raises for None and for a non-numeric string
wind_raises(fs) == fs.wind.kind # "num"

\* <<pmax, pmin>> of a wind turbine
get_windpowerplant_power(plant, fs) ==
    LET factor == Max(0, Min(100, fs.wind.val))
    IN  <<(plant.pmax * factor) \div 100, 0>>

\* <<pmin, pmax>>
obtain_power(plant, fs) ==
    IF plant.type # "windturbine" THEN <<plant.pmin, plant.pmax>>
    ELSE LET w == get_windpowerplant_power(plant, fs) IN <<w[2], w[1]>>

obtain_power_raises(plant, fs) == plant.type = "windturbine" /\ wind_raises(fs)

(****************************** process_plants *****************************)
\* The loop of process_plants from plant k on.  kind is "totals" when the loop
\* ends and (total_min, total_max) is returned, "error_response" when the
\* except branch returns (jsonify({'error': ...}), 400) instead, and "raised"
\* when compute_cost raises out of the function.  running is the caller's list
\* as the function leaves it.
RECURSIVE process_from(_, _, _, _, _, _)
process_from(ps, fs, k, running, total_min, total_max) ==
    IF k > Len(ps) THEN
        [kind |-> "totals", running |-> running,
         total_min |-> total_min, total_max |-> total_max]
    ELSE IF obtain_power_raises(ps[k], fs) THEN
        [kind |-> "error_response", running |-> running,
         total_min |-> total_min, total_max |-> total_max]
    ELSE IF compute_cost_raises(ps[k], fs) # "none" THEN
        [kind |-> "raised", running |-> running,
         total_min |-> total_min, total_max |-> total_max]
    ELSE
        LET b == obtain_power(ps[k], fs)
            running_plant ==
                [name |-> ps[k].name, type |-> ps[k].type,
                 efficiency |-> efficiency_of(ps[k]),
                 pmin |-> b[1], pmax |-> b[2],
                 cost |-> compute_cost(ps[k], fs)]
        IN  process_from(ps, fs, k + 1, Append(running, running_plant),
                         total_min + b[1], total_max + b[2])

process_plants(ps, fs) == process_from(ps, fs, 1, <<>>, 0, 0)

(********************************* sorted **********************************)
\* Mutant: the sort runs by descending cost
insert_ascending_reversed(s, order, i) ==
    LET n == Cardinality({j \in 1..Len(order) : s[order[j]].cost >= s[i].cost})
    IN  SubSeq(order, 1, n) \o <<i>> \o SubSeq(order, n + 1, Len(order))

\* Mutant: an unstable sort, equal costs come out in reverse order
insert_ascending_unstable(s, order, i) ==
    LET n == Cardinality({j \in 1..Len(order) : s[order[j]].cost < s[i].cost})
    IN  SubSeq(order, 1, n) \o <<i>> \o SubSeq(order, n + 1, Len(order))

\* Where index i goes into `order` (indices of s already in ascending cost):
\* behind every index whose cost is not larger, so that equal costs keep the
\* order in which they were met (Python's sort is stable).
insert_ascending(s, order, i) ==
    LET n == Cardinality({j \in 1..Len(order) : s[order[j]].cost <= s[i].cost})
    IN  SubSeq(order, 1, n) \o <<i>> \o SubSeq(order, n + 1, Len(order))

\* The same for reverse=True, which also keeps equal keys in their order.
insert_descending(s, order, i) ==
    LET n == Cardinality({j \in 1..Len(order) : s[order[j]].cost >= s[i].cost})
    IN  SubSeq(order, 1, n) \o <<i>> \o SubSeq(order, n + 1, Len(order))

\* The indices of s[1..n] as sorted(s, key=cost) visits them
RECURSIVE sorted_order(_, _)
sorted_order(s, n) ==
    IF n = 0 THEN <<>> ELSE insert_ascending(s, sorted_order(s, n - 1), n)

\* The indices of s[1..n] as sorted(s, key=cost, reverse=True) visits them
RECURSIVE sorted_order_reverse(_, _)
sorted_order_reverse(s, n) ==
    IF n = 0 THEN <<>> ELSE insert_descending(s, sorted_order_reverse(s, n - 1), n)

\* sorted(s, key=lambda x: x['cost']) as a new list
sorted_by_cost(s) ==
    LET order == sorted_order(s, Len(s))
    IN  [k \in 1..Len(s) |-> s[order[k]]]

(*************************** merit-order fill ******************************)
\* plant['power'] = 0 for every plant: the key 'power' is created here
with_power_zero(s) ==
    [k \in 1..Len(s) |->
        [f \in DOMAIN s[k] \cup {"power"} |-> IF f = "power" THEN 0 ELSE s[k][f]]]

\* Mutant: a plant takes all its capacity whatever load remains
to_add_ignores_load(available, remaining_total_load) == available

\* min(available, remaining_total_load)
to_add_of(available, remaining_total_load) == Min(available, remaining_total_load)

\* The loop over the sorted plants from plant k on
RECURSIVE fill_from(_, _, _)
fill_from(s, k, remaining_total_load) ==
    IF k > Len(s) \/ remaining_total_load <= 0 THEN s
    ELSE
        LET available == s[k].pmax - s[k].power
            to_add == to_add_of(available, remaining_total_load)
        IN  fill_from([s EXCEPT ![k].power = @ + to_add], k + 1,
                      remaining_total_load - to_add)

\* Initialise, sort and fill
merit_order_fill(s, ld) ==
    LET sorted == sorted_by_cost(with_power_zero(s))
    IN  fill_from(sorted, 1, ld - SumOf(sorted, "power"))

(********************** optional_precision_iteration ***********************)
\* The while condition
loop_continues(s, ld, iter) == ~isclose(SumOf(s, "power"), ld) /\ iter < max_iter

\* Mutant: the round counter is not advanced
next_iter_stuck(iter) == iter

\* iter_count += 1
next_iter(iter) == iter + 1

\* diff > 0: the loop over the plants by descending cost, from position k on
RECURSIVE reduce_from(_, _, _, _)
reduce_from(s, order, k, diff) ==
    IF k > Len(order) \/ diff <= 0 THEN s
    ELSE
        LET i == order[k]
            reducible == s[i].power - s[i].pmin
            reduce_by == Min(reducible, diff)
        IN  IF reduce_by > 0
            THEN reduce_from([s EXCEPT ![i].power = @ - reduce_by], order, k + 1,
                             diff - reduce_by)
            ELSE reduce_from(s, order, k + 1, diff)

\* diff <= 0: the loop over the plants by ascending cost, from position k on
RECURSIVE increase_from(_, _, _, _)
increase_from(s, order, k, need) ==
    IF k > Len(order) \/ need <= 0 THEN s
    ELSE
        LET i == order[k]
            spare == s[i].pmax - s[i].power
            add == Min(spare, need)
        IN  IF add > 0
            THEN increase_from([s EXCEPT ![i].power = @ + add], order, k + 1,
                               need - add)
            ELSE increase_from(s, order, k + 1, need)

\* abs(diff) < minimum_difference, with minimum_difference = 1e-6
below_minimum_difference(diff) == Abs(diff) <= 0

\* One pass of the while body on the plants, after the break test
rebalance_round(s, ld) ==
    LET diff == SumOf(s, "power") - ld
    IN  IF diff > 0
        THEN reduce_from(s, sorted_order_reverse(s, Len(s)), 1, diff)
        ELSE increase_from(s, sorted_order(s, Len(s)), 1, 0 - diff)

(************************ ensure_total_equals_load *************************)
\* new_p >= pmin - 1e-9 and new_p <= pmax + 1e-9 and new_p >= 0.0
fits(plant, new_p) == new_p >= plant.pmin /\ new_p <= plant.pmax /\ new_p >= 0

\* The loop over the plants by ascending cost from position k on, with a
\* difference that is not 0: the responses it can leave.
RECURSIVE ensure_from(_, _, _, _, _)
ensure_from(s, order, k, resp, difference) ==
    IF k > Len(order) THEN {resp}
    ELSE
        LET plant == s[order[k]]
            hits == {i \in 1..Len(resp) : resp[i].name = plant.name}
        IN  IF hits = {} THEN ensure_from(s, order, k + 1, resp, difference)
            ELSE
                LET i == CHOOSE h \in hits : \A g \in hits : h <= g
                    new_p == resp[i].power + difference
                IN  IF fits(plant, new_p)
                    THEN {[resp EXCEPT ![i].power = v] : v \in round1(new_p)}
                    ELSE ensure_from(s, order, k + 1, resp, difference)

\* Mutant: the difference is taken with the wrong sign of rounded_total
ensure_total_sign_slip(ld, s, resp, rounded_total) ==
    UNION { IF Abs(difference) >= one_decimal
            THEN ensure_from(s, sorted_order(s, Len(s)), 1, resp, difference)
            ELSE {resp}
          : difference \in round1(ld + rounded_total) }

\* The responses ensure_total_equals_load can leave
ensure_total_equals_load(ld, s, resp, rounded_total) ==
    UNION { IF Abs(difference) >= one_decimal
            THEN ensure_from(s, sorted_order(s, Len(s)), 1, resp, difference)
            ELSE {resp}
          : difference \in round1(ld - rounded_total) }

\* response.append({'name': plant['name'], 'power': plant['power']})
build_response(s) ==
    [k \in 1..Len(s) |-> [name |-> s[k].name, power |-> s[k].power]]

(******************************* requests **********************************)
\* The plants a request is drawn from: names are unique within a request.
\* gas1 and gas3 cost the same; gas2 is the expensive unit with the high floor;
\* gas3 and tj1 have bounds that are not multiples of 0.1 MW.
PlantCatalogue ==
    { [name |-> "gas1", type |-> "gasfired", efficiency |-> Num(100),
       pmin |-> 500, pmax |-> 1000],
      [name |-> "gas2", type |-> "gasfired", efficiency |-> Num(50),
       pmin |-> 3000, pmax |-> 10000],
      [name |-> "gas3", type |-> "gasfired", efficiency |-> Absent,
       pmin |-> 0, pmax |-> 2005],
      [name |-> "wind1", type |-> "windturbine", efficiency |-> Num(100),
       pmin |-> 300, pmax |-> 15000],
      [name |-> "tj1", type |-> "turbojet", efficiency |-> Num(50),
       pmin |-> 0, pmax |-> 1615],
      [name |-> "hydro1", type |-> "hydro", efficiency |-> Num(100),
       pmin |-> 0, pmax |-> 4000] }

\* Lists of 1..MaxPlants plants with different names
RECURSIVE PlantLists(_)
PlantLists(n) ==
    IF n = 0 THEN {<<>>}
    ELSE LET shorter == PlantLists(n - 1)
         IN  shorter \cup
             { Append(s, p) : s \in {t \in shorter : Len(t) = n - 1},
                              p \in PlantCatalogue }

HasUniqueNames(s) == \A i, j \in 1..Len(s) : s[i].name = s[j].name => i = j

Requests == {s \in PlantLists(MaxPlants) : Len(s) >= 1 /\ HasUniqueNames(s)}

FuelsSet ==
    [gas : {Absent, Num(20)}, kerosine : {Absent, Num(10)},
     co2 : {Absent, Num(20)}, wind : {Absent, Str, Num(-20), Num(60), Num(150)}]

LoadSet == {-100, 0, 1005, 3500, 9000, 11000, 40000}

NoReturn == [kind |-> "none", total_min |-> 0, total_max |-> 0]
Pending == [status |-> 0, error |-> "none", load |-> 0, min |-> 0, max |-> 0]

\* productionplan after its payload was read (lines 110-118)
Init ==
    /\ load \in LoadSet
    /\ plants \in Requests
    /\ fuels \in FuelsSet
    /\ running_plants = <<>>
    /\ ret = NoReturn
    /\ iter_count = 0
    /\ response = <<>>
    /\ result = Pending
    /\ pc = "start"

(******************************* productionplan ****************************)
\* Mutant: the upper half of the range test is missing
load_out_of_range_no_upper(ld, total_min, total_max) == ld < total_min

\* load < total_min or load > total_max
load_out_of_range(ld, total_min, total_max) == ld < total_min \/ ld > total_max

\* running_plants = []; total_min, total_max = process_plants(...)
ProcessPlants ==
    /\ pc = "start"
    /\ LET r == process_plants(plants, fuels)
       IN  /\ running_plants' = r.running
           /\ IF r.kind = "raised"
              THEN /\ pc' = "crashed"
                   /\ result' = [Pending EXCEPT !.status = 500, !.error = "ValueError"]
                   /\ ret' = ret
              ELSE /\ pc' = "bounds"
                   /\ ret' = [kind |-> r.kind, total_min |-> r.total_min,
                              total_max |-> r.total_max]
                   /\ result' = result
    /\ UNCHANGED <<load, plants, fuels, iter_count, response>>

\* The range test.  After the except branch of process_plants total_min is a
\* Response object and the comparison with a float raises TypeError.
CheckLoad ==
    /\ pc = "bounds"
    /\ IF ret.kind = "error_response"
       THEN /\ pc' = "crashed"
            /\ result' = [Pending EXCEPT !.status = 500, !.error = "TypeError"]
       ELSE IF load_out_of_range(load, ret.total_min, ret.total_max)
       THEN /\ pc' = "rejected"
            /\ result' = [status |-> 400, error |-> "LoadOutOfRange", load |-> load,
                          min |-> ret.total_min, max |-> ret.total_max]
       ELSE /\ pc' = "accepted"
            /\ result' = result
    /\ UNCHANGED <<load, plants, fuels, running_plants, ret, iter_count, response>>

\* Lines 126-143
MeritOrderFill ==
    /\ pc = "accepted"
    /\ running_plants' = merit_order_fill(running_plants, load)
    /\ pc' = "filled"
    /\ UNCHANGED <<load, plants, fuels, ret, iter_count, response, result>>

\* Lines 148-152: the warning reads final_total before it is assigned
DriftCheck ==
    /\ pc = "filled"
    /\ iter_count' = 0
    /\ IF ~isclose(SumOf(running_plants, "power"), load) /\ 0 < max_iter
       THEN /\ pc' = "crashed"
            /\ result' = [Pending EXCEPT !.status = 500, !.error = "UnboundLocalError"]
       ELSE /\ pc' = "rebalancing"
            /\ result' = result
    /\ UNCHANGED <<load, plants, fuels, running_plants, ret, response>>

\* One evaluation of the while condition of optional_precision_iteration and,
\* when it holds, one pass of the body; when it fails, final_total is returned.
Rebalance ==
    /\ pc = "rebalancing"
    /\ IF loop_continues(running_plants, load, iter_count)
       THEN IF below_minimum_difference(SumOf(running_plants, "power") - load)
            THEN /\ pc' = "rebalanced"
                 /\ UNCHANGED <<running_plants, iter_count>>
            ELSE /\ running_plants' = rebalance_round(running_plants, load)
                 /\ iter_count' = next_iter(iter_count)
                 /\ pc' = "rebalancing"
       ELSE /\ pc' = "rebalanced"
            /\ UNCHANGED <<running_plants, iter_count>>
    /\ UNCHANGED <<load, plants, fuels, ret, response, result>>

\* Lines 158-172
Respond ==
    /\ pc = "rebalanced"
    /\ \E r \in ensure_total_equals_load(load, running_plants,
                                         build_response(running_plants),
                                         SumOf(running_plants, "power")) :
           response' = r
    /\ result' = [Pending EXCEPT !.status = 200]
    /\ pc' = "done"
    /\ UNCHANGED <<load, plants, fuels, running_plants, ret, iter_count>>

Next ==
    \/ ProcessPlants
    \/ CheckLoad
    \/ MeritOrderFill
    \/ DriftCheck
    \/ Rebalance
    \/ Respond

Spec == Init /\ [][Next]_vars

(************** optional_precision_iteration on its own ********************)
\* Candidate lists the function is called with: two shapes of unit (a cheap
\* one and an expensive one with a high floor), each at power 0, just above
\* its floor, or at its ceiling.
Names == <<"p1", "p2", "p3", "p4", "p5">>

CandidateShapes ==
    { [pmin |-> 500, pmax |-> 1000, cost |-> 200],
      [pmin |-> 3000, pmax |-> 10000, cost |-> 400] }

CandidatesAt(k) ==
    UNION { { [name |-> Names[k], type |-> "gasfired", efficiency |-> 100,
                pmin |-> c.pmin, pmax |-> c.pmax, cost |-> c.cost, power |-> p]
              : p \in {0, c.pmin + 30, c.pmax} }
            : c \in CandidateShapes }

RECURSIVE CandidateLists(_)
CandidateLists(n) ==
    IF n = 0 THEN {<<>>}
    ELSE LET shorter == CandidateLists(n - 1)
         IN  shorter \cup
             { Append(s, c) : s \in {t \in shorter : Len(t) = n - 1},
                              c \in CandidatesAt(n) }

RebalanceLoadSet == {1000, 3540, 9000, 12000}

\* The call optional_precision_iteration(load, running_plants, 1000, 0, 1e-6)
InitRebalance ==
    /\ load \in RebalanceLoadSet
    /\ running_plants \in {s \in CandidateLists(MaxPlants) : Len(s) >= 1}
    /\ plants = <<>>
    /\ fuels = [gas |-> Absent, kerosine |-> Absent, co2 |-> Absent, wind |-> Absent]
    /\ ret = NoReturn
    /\ iter_count = 0
    /\ response = <<>>
    /\ result = Pending
    /\ pc = "rebalancing"

NextRebalance ==
    \/ Rebalance
    \/ Respond

SpecRebalance == InitRebalance /\ [][NextRebalance]_vars

(******************************** claims ***********************************)
\* All prices and the wind availability are present and numeric
WellFormed ==
    /\ fuels.gas.kind = "num"
    /\ fuels.kerosine.kind = "num"
    /\ fuels.wind.kind = "num"

\* Sum of the effective minimums / maximums of the request's units
RECURSIVE TotalBound(_, _, _)
TotalBound(ps, fs, which) ==
    IF ps = <<>> THEN 0
    ELSE obtain_power(ps[Len(ps)], fs)[which]
           + TotalBound(SubSeq(ps, 1, Len(ps) - 1), fs, which)

InBand == TotalBound(plants, fuels, 1) <= load /\ load <= TotalBound(plants, fuels, 2)

Allocating == pc \in {"accepted", "filled", "rebalancing", "rebalanced", "done"}

NoAllocation == \A i \in 1..Len(running_plants) : "power" \notin DOMAIN running_plants[i]

\* The candidate a response entry belongs to
CandidateOf(name) ==
    running_plants[CHOOSE i \in 1..Len(running_plants) : running_plants[i].name = name]

\* C1: a well-formed request is accepted and answered with a plan iff
\* sum of effective-min <= load <= sum of effective-max; otherwise it ends with
\* LoadOutOfRange carrying load, min and max, with no plan and no allocation.
FeasibilityBound ==
    WellFormed =>
        /\ pc # "crashed"
        /\ Allocating => InBand
        /\ pc = "done" => result.status = 200 /\ Len(response) = Len(plants)
        /\ pc = "rejected" =>
              /\ ~InBand
              /\ result = [status |-> 400, error |-> "LoadOutOfRange", load |-> load,
                           min |-> TotalBound(plants, fuels, 1),
                           max |-> TotalBound(plants, fuels, 2)]
              /\ response = <<>>
              /\ NoAllocation
        /\ pc \in {"start", "bounds"} => NoAllocation

FeasibilityBoundWitness ==
    /\ WellFormed
    /\ pc = "rejected"
    /\ Len(plants) >= 2
    /\ load > TotalBound(plants, fuels, 2)
    /\ TotalBound(plants, fuels, 2) > 0

\* C2: the powers of a returned plan sum to within 0.5 MW of the load.
SumProperty == pc = "done" => Abs(SumOf(response, "power") - load) <= 50

SumPropertyWitness ==
    /\ pc = "done"
    /\ Len(response) >= 2
    /\ \A i \in 1..Len(response) : response[i].power > 0

\* C3: every entry of a returned plan lies between the effective minimum and
\* the effective maximum of its unit.
BoundsProperty ==
    pc = "done" =>
        \A i \in 1..Len(response) :
            /\ CandidateOf(response[i].name).pmin <= response[i].power
            /\ response[i].power <= CandidateOf(response[i].name).pmax

\* C4: in a returned plan, when a candidate has power, every strictly cheaper
\* candidate is at its effective maximum.
CostOrdering ==
    pc = "done" =>
        \A i, j \in 1..Len(response) :
            LET ci == CandidateOf(response[i].name)
                cj == CandidateOf(response[j].name)
            IN  (ci.cost < cj.cost /\ response[j].power > 0)
                    => response[i].power = ci.pmax

CostOrderingWitness ==
    /\ pc = "done"
    /\ \E i, j \in 1..Len(response) :
          /\ CandidateOf(response[i].name).cost < CandidateOf(response[j].name).cost
          /\ CandidateOf(response[j].name).cost = Infinity
          /\ response[j].power > 0
          /\ response[i].power > 0

\* C5: every power of a returned plan is a multiple of 0.1 MW.
OneDecimal ==
    pc = "done" => \A i \in 1..Len(response) : response[i].power % 10 = 0

HasWind == \E i \in 1..Len(plants) : plants[i].type = "windturbine"

\* C6: a request with a wind unit and a missing or non-numeric wind
\* availability (its prices present) ends with the client error
\* InvalidAvailabilityFactor, and nothing is allocated.
WindFailureIsClientError ==
    (HasWind /\ wind_raises(fuels) /\ fuels.gas.kind = "num" /\ fuels.kerosine.kind = "num")
        => /\ ~Allocating
           /\ pc \in {"crashed", "rejected"} =>
                 result.status = 400 /\ result.error = "InvalidAvailabilityFactor"

\* Position of a unit in the request
InputIndex(name) == CHOOSE i \in 1..Len(plants) : plants[i].name = name

\* C7: the response lists the request's units by ascending cost, equal costs
\* in request order, and of two equal-cost units the later one has power only
\* when the earlier one is at its effective maximum.
StableMeritOrder ==
    pc = "done" =>
        /\ Len(response) = Len(plants)
        /\ \A k \in 1..Len(plants) : \E i \in 1..Len(response) : response[i].name = plants[k].name
        /\ \A i, j \in 1..Len(response) :
              LET ci == CandidateOf(response[i].name)
                  cj == CandidateOf(response[j].name)
              IN  i < j =>
                    /\ ci.cost <= cj.cost
                    /\ ci.cost = cj.cost =>
                          /\ InputIndex(response[i].name) < InputIndex(response[j].name)
                          /\ response[j].power > 0 => response[i].power = ci.pmax

StableMeritOrderWitness ==
    /\ pc = "done"
    /\ Len(response) = 3
    /\ \E i, j \in 1..Len(response) :
          /\ i < j
          /\ CandidateOf(response[i].name).cost = CandidateOf(response[j].name).cost
          /\ response[j].power > 0
          /\ \E k \in 1..Len(plants) :
                /\ InputIndex(response[i].name) < k
                /\ k < InputIndex(response[j].name)

\* How far the call has come: the rounds done, then the return, then the response
Progress ==
    IF pc = "rebalancing" THEN iter_count
    ELSE IF pc = "rebalanced" THEN max_iter + 1
    ELSE max_iter + 2

\* ENABLED <<NextRebalance>>_vars written out: the call can take a step that
\* changes the state (a pass of the loop that changed neither a power nor the
\* round counter would repeat for ever).
StepPossible ==
    \/ pc = "rebalanced"
    \/ /\ pc = "rebalancing"
       /\ \/ ~loop_continues(running_plants, load, iter_count)
          \/ below_minimum_difference(SumOf(running_plants, "power") - load)
          \/ <<rebalance_round(running_plants, load), next_iter(iter_count)>>
                # <<running_plants, iter_count>>

\* C8: the loop of optional_precision_iteration ends after at most max_iter
\* rounds and the plan is returned: the round counter never passes max_iter,
\* until the response is built a step that changes the state is possible,
\* every round adds exactly one to the counter, and every step moves the call
\* forward.
RebalancerTerminates ==
    /\ [](iter_count <= max_iter)
    /\ [](pc # "done" => StepPossible)
    /\ [][(pc = "rebalancing" /\ pc' = "rebalancing") => iter_count' = iter_count + 1]_vars
    /\ [][Progress' > Progress]_vars

RebalancerTerminatesWitness ==
    /\ pc = "done"
    /\ iter_count = max_iter
    /\ Abs(SumOf(running_plants, "power") - load) > 50

InBounds ==
    \A i \in 1..Len(running_plants) :
        /\ running_plants[i].pmin <= running_plants[i].power
        /\ running_plants[i].power <= running_plants[i].pmax

Feasible ==
    /\ SumOf(running_plants, "pmin") <= load
    /\ load <= SumOf(running_plants, "pmax")

\* C9: from powers inside their bounds and a feasible load, when the loop
\* returns before the cap the remaining imbalance is below 1e-6.
StopsOnlyWhenBalanced ==
    (pc = "rebalanced" /\ InBounds /\ Feasible /\ iter_count < max_iter)
        => SumOf(running_plants, "power") = load

====
